---- MODULE Spec2Model ----
(***************************************************************************)
(* A model of bradleyfalzon/abicheck: the declaration comparator           *)
(* (DeclChecker, ast.go), the declaration extractor (pkgDecls,             *)
(* abicheck.go) and the driver (Checker.Check / compareDecls,              *)
(* abicheck.go).                                                           *)
(*                                                                         *)
(* Identifiers are sequences of one-character strings, so that the code's  *)
(* string operations (first rune, slicing, byte-wise ordering) are         *)
(* computed and not assumed.  Every syntax node carries in `src` the       *)
(* revision whose parse produced it ("b", "a"), or "expr" for the nodes    *)
(* exprInterfaceType re-parses: a types.Info only knows the nodes of its   *)
(* own type-check.                                                         *)
(***************************************************************************)
EXTENDS Integers, Sequences, FiniteSets, TLC

VARIABLES
    before,   \* DeclChecker.Check: the `before` declaration
    after,    \* DeclChecker.Check: the `after` declaration
    binfo,    \* DeclChecker.binfo (types.Info of the before revision)
    ainfo,    \* DeclChecker.ainfo (types.Info of the after revision)
    change,   \* what DeclChecker.Check returned
    pc,       \* position of the caller: "ready" before the call, "done" after
    files,    \* pkgDecls: the parsed files ([]*ast.File, as their Decls)
    decls,    \* pkgDecls: the returned map
    vcs,      \* Checker.vcs: what each revision of the repository holds
    chk,      \* the Checker value: fields b, a, err
    ret       \* what the last Checker.Check call was given and returned

vars == <<before, after, binfo, ainfo, change, pc, files, decls, vcs, chk, ret>>

-----------------------------------------------------------------------------
(* The change kinds, ast.go:17-21 *)
None == "no change"
NonBreaking == "non-breaking change"
Breaking == "breaking change"

NoErr == "<nil>"

DeclChange(ch, msg) == [Change |-> ch, Msg |-> msg, err |-> NoErr, panic |-> FALSE]
nonBreaking(msg) == DeclChange(NonBreaking, msg)
breaking(msg) == DeclChange(Breaking, msg)
none == DeclChange(None, "")
\* return DeclChange{}, err
errChange(e) == [Change |-> "", Msg |-> "", err |-> e, panic |-> FALSE]
\* a run-time panic unwinds Check: nothing is returned
panicChange(e) == [Change |-> "", Msg |-> "", err |-> e, panic |-> TRUE]

-----------------------------------------------------------------------------
(* Syntax (go/ast).  Names and Name fields are identifiers: sequences of   *)
(* characters.                                                             *)
Field(names, type) == [Names |-> names, Type |-> type]
Ident(src, name) == [node |-> "Ident", src |-> src, Name |-> name]
SelectorExpr(src, x, sel) == [node |-> "SelectorExpr", src |-> src, X |-> x, Sel |-> sel]
StarExpr(src, x) == [node |-> "StarExpr", src |-> src, X |-> x]
Ellipsis(src, elt) == [node |-> "Ellipsis", src |-> src, Elt |-> elt]
ChanType(src, dir, value) == [node |-> "ChanType", src |-> src, Dir |-> dir, Value |-> value]
\* Results: a *ast.FieldList that may be nil
NoResults == [present |-> FALSE, List |-> <<>>]
Results(list) == [present |-> TRUE, List |-> list]
FuncType(src, params, results) ==
    [node |-> "FuncType", src |-> src, Params |-> params, Results |-> results]
InterfaceType(src, methods) == [node |-> "InterfaceType", src |-> src, Methods |-> methods]
StructType(src, fields) == [node |-> "StructType", src |-> src, Fields |-> fields]

ValueSpec(names, type, values) ==
    [node |-> "ValueSpec", Names |-> names, Type |-> type, Values |-> values]
TypeSpec(name, type) == [node |-> "TypeSpec", Name |-> name, Type |-> type]
ImportSpec(path) == [node |-> "ImportSpec", Path |-> path]
GenDecl(tok, specs) == [node |-> "GenDecl", Tok |-> tok, Specs |-> specs]
FuncDecl(recv, name, type, body) ==
    [node |-> "FuncDecl", Recv |-> recv, Name |-> name, Type |-> type, Body |-> body]

\* ast.ChanDir: SEND, RECV, and SEND|RECV for a channel without direction
SEND == "SEND"
RECV == "RECV"
BOTH == "SEND|RECV"

Upper == {"A", "B", "C", "D", "E", "F", "G", "H", "I", "J", "K", "L", "M",
          "N", "O", "P", "Q", "R", "S", "T", "U", "V", "W", "X", "Y", "Z"}

\* ast.IsExported: the first rune is an upper-case letter
IsExported(name) == Len(name) > 0 /\ name[1] \in Upper

\* strconv.Itoa, for the indices a field list can have
Itoa(i) ==
    LET digit == <<"0", "1", "2", "3", "4", "5", "6", "7", "8", "9">>
    IN  IF i < 10 THEN <<digit[i + 1]>> ELSE <<digit[(i \div 10) + 1], digit[(i % 10) + 1]>>

\* fieldKey, ast.go:357-363 (i is the 0-based position)
fieldKey(field, i) ==
    IF Len(field.Names) > 0 THEN field.Names[1] ELSE Itoa(i)

\* stripNames, ast.go:308-320
stripNames(fields) == [i \in 1..Len(fields) |-> Field(<<>>, fields[i].Type)]

-----------------------------------------------------------------------------
(* Types (go/types).  A types.Info is [rev, ifaces]: rev names the         *)
(* type-check run, ifaces maps the named interface types it resolved,      *)
(* <<package path, name>>, to their method lists.                          *)
PkgPath == <<"p">>
BasicNames == {<<"i", "n", "t">>, <<"s", "t", "r", "i", "n", "g">>}
\* predeclared named types: the same object in every type-check
UniverseNames == {<<"e", "r", "r", "o", "r">>}
UniverseIfaces == {<<"e", "r", "r", "o", "r">>}

NilType == [t |-> "nil"]

RECURSIVE TypeOfNode(_, _)
RECURSIVE SigParams(_, _)
SigParams(info, fields) ==
    IF Len(fields) = 0 THEN <<>>
    ELSE LET f == fields[1]
             ty == TypeOfNode(info, f.Type)
             these == IF Len(f.Names) = 0 THEN <<[name |-> <<>>, type |-> ty]>>
                      ELSE [j \in 1..Len(f.Names) |-> [name |-> f.Names[j], type |-> ty]]
         IN  these \o SigParams(info, Tail(fields))

\* the type the checker recorded for a node of its own revision
TypeOfNode(info, e) ==
    CASE e.node = "Ident" ->
            IF e.Name \in BasicNames THEN [t |-> "Basic", name |-> e.Name]
            ELSE IF e.Name \in UniverseNames
                 THEN [t |-> "Named", rev |-> "universe", path |-> <<>>, name |-> e.Name]
                 ELSE [t |-> "Named", rev |-> info.rev, path |-> PkgPath, name |-> e.Name]
      [] e.node = "SelectorExpr" ->
            [t |-> "Named", rev |-> info.rev, path |-> e.X, name |-> e.Sel]
      [] e.node = "StarExpr" -> [t |-> "Pointer", elem |-> TypeOfNode(info, e.X)]
      [] e.node = "Ellipsis" -> [t |-> "Slice", elem |-> TypeOfNode(info, e.Elt)]
      [] e.node = "ChanType" ->
            [t |-> "Chan", dir |-> e.Dir, elem |-> TypeOfNode(info, e.Value)]
      [] e.node = "FuncType" ->
            [t |-> "Signature", params |-> SigParams(info, e.Params),
             results |-> SigParams(info, e.Results.List)]
      [] e.node = "InterfaceType" ->
            [t |-> "Interface",
             methods |-> [i \in 1..Len(e.Methods) |->
                            [name |-> fieldKey(e.Methods[i], i - 1),
                             type |-> TypeOfNode(info, e.Methods[i].Type)]]]
      [] e.node = "StructType" ->
            [t |-> "Struct", fields |-> SigParams(info, e.Fields)]

\* types.Info.TypeOf: nil for a node this type-check never saw
TypeOf(info, e) == IF e.src # info.rev THEN NilType ELSE TypeOfNode(info, e)

RECURSIVE StripParamNames(_)
StripParamNames(ty) ==
    CASE ty.t = "Signature" ->
            [t |-> "Signature",
             params |-> [i \in 1..Len(ty.params) |->
                           [name |-> <<>>, type |-> StripParamNames(ty.params[i].type)]],
             results |-> [i \in 1..Len(ty.results) |->
                           [name |-> <<>>, type |-> StripParamNames(ty.results[i].type)]]]
      [] ty.t \in {"Pointer", "Slice"} -> [ty EXCEPT !.elem = StripParamNames(ty.elem)]
      [] ty.t = "Chan" -> [ty EXCEPT !.elem = StripParamNames(ty.elem)]
      [] OTHER -> ty

\* types.Identical: structural, but two named types are identical only when
\* they are the same object, and the two revisions are type-checked apart
\* (each with its own importer), so only predeclared names are shared.
Identical(x, y) == StripParamNames(x) = StripParamNames(y)

RECURSIVE TypeString(_)
RECURSIVE ParamsString(_)
ParamsString(ps) ==
    IF Len(ps) = 0 THEN <<>>
    ELSE (IF Len(ps[1].name) > 0 THEN ps[1].name \o <<" ">> ELSE <<>>)
         \o TypeString(ps[1].type)
         \o (IF Len(ps) > 1 THEN <<", ">> ELSE <<>>)
         \o ParamsString(Tail(ps))

\* types.TypeString(t, nil): package-path qualified, the same text in both
\* revisions for the same named type
TypeString(ty) ==
    CASE ty.t = "nil" -> <<"<nil>">>
      [] ty.t = "Basic" -> ty.name
      [] ty.t = "Named" -> IF Len(ty.path) = 0 THEN ty.name ELSE ty.path \o <<".">> \o ty.name
      [] ty.t = "Pointer" -> <<"*">> \o TypeString(ty.elem)
      [] ty.t = "Slice" -> <<"[]">> \o TypeString(ty.elem)
      [] ty.t = "Chan" ->
            (CASE ty.dir = SEND -> <<"chan<- ">>
               [] ty.dir = RECV -> <<"<-chan ">>
               [] OTHER -> <<"chan ">>) \o TypeString(ty.elem)
      [] ty.t = "Signature" ->
            <<"func(">> \o ParamsString(ty.params) \o <<")">>
            \o (IF Len(ty.results) = 0 THEN <<>>
                ELSE <<" (">> \o ParamsString(ty.results) \o <<")">>)
      [] ty.t = "Interface" ->
            <<"interface{">> \o ParamsString(ty.methods) \o <<"}">>
      [] ty.t = "Struct" ->
            <<"struct{">> \o ParamsString(ty.fields) \o <<"}">>

\* types.IsInterface: the underlying type is an interface
IsInterface(info, ty) ==
    \/ ty.t = "Interface"
    \/ /\ ty.t = "Named"
       /\ \/ ty.rev = "universe" /\ ty.name \in UniverseIfaces
          \/ ty.rev # "universe" /\ <<ty.path, ty.name>> \in DOMAIN info.ifaces

-----------------------------------------------------------------------------
(* The comparator, ast.go.  A DeclChecker c is [binfo, ainfo].             *)

\* diffResult, ast.go:214-227
Added(d) == Len(d.added) > 0
Removed(d) == Len(d.removed) > 0
Modified(d) == Len(d.modified) > 0
Changed(d) == Len(d.added) > 0 \/ Len(d.removed) > 0 \/ Len(d.modified) > 0

\* removeModified, ast.go:296-302: rmi holds 0-based indices, ascending as
\* its callers build it, and is consumed from its end
RECURSIVE removeModified(_, _)
removeModified(modified, rmi) ==
    IF Len(rmi) = 0 THEN modified
    ELSE LET i == rmi[Len(rmi)]
         IN  removeModified(SubSeq(modified, 1, i) \o SubSeq(modified, i + 2, Len(modified)),
                            SubSeq(rmi, 1, Len(rmi) - 1))

\* the loop of RemoveUnexported, ast.go:286-291: the 0-based indices of the
\* modified pairs whose before field has an unexported first name
RECURSIVE unexportedLoop(_, _)
unexportedLoop(modified, i) ==
    IF i > Len(modified) THEN <<>>
    ELSE (IF ~IsExported(modified[i][1].Names[1]) THEN <<i - 1>> ELSE <<>>)
         \o unexportedLoop(modified, i + 1)

\* RemoveUnexported, ast.go:284-294: bident[0] of a field without names
\* (an embedded field) is an index out of range
RemoveUnexported(d) ==
    IF \E i \in 1..Len(d.modified) : Len(d.modified[i][1].Names) = 0
    THEN [panic |-> TRUE, d |-> d]
    ELSE [panic |-> FALSE,
          d |-> [d EXCEPT !.modified = removeModified(d.modified,
                                            unexportedLoop(d.modified, 1))]]

\* the text go/types prints for a type is parsed again: a name of the package
\* under test comes back qualified (p.T, a selector), and every node is new
RECURSIVE Reparse(_)
RECURSIVE ReparseFields(_)
ReparseFields(fields) ==
    [i \in 1..Len(fields) |-> Field(fields[i].Names, Reparse(fields[i].Type))]
Reparse(e) ==
    CASE e.node = "Ident" ->
            IF e.Name \in BasicNames \cup UniverseNames THEN Ident("expr", e.Name)
            ELSE SelectorExpr("expr", PkgPath, e.Name)
      [] e.node = "SelectorExpr" -> SelectorExpr("expr", e.X, e.Sel)
      [] e.node = "StarExpr" -> StarExpr("expr", Reparse(e.X))
      [] e.node = "Ellipsis" -> Ellipsis("expr", Reparse(e.Elt))
      [] e.node = "ChanType" -> ChanType("expr", e.Dir, Reparse(e.Value))
      [] e.node = "FuncType" ->
            FuncType("expr", ReparseFields(e.Params),
                     [present |-> e.Results.present, List |-> ReparseFields(e.Results.List)])
      [] e.node = "InterfaceType" -> InterfaceType("expr", ReparseFields(e.Methods))
      [] e.node = "StructType" -> StructType("expr", ReparseFields(e.Fields))

\* the method list of a named interface type, as the type-check resolved it
IfaceMethods(info, path, name) ==
    IF <<path, name>> \in DOMAIN info.ifaces THEN info.ifaces[<<path, name>>]
    ELSE <<Field(<<<<"E", "r", "r", "o", "r">>>>,
                 FuncType(info.rev, <<>>,
                          Results(<<Field(<<>>, Ident(info.rev, <<"s", "t", "r", "i", "n", "g">>))>>)))>>

\* exprInterfaceType, ast.go:396-436
exprInterfaceType(info, expr) ==
    LET sel == CASE expr.node = "StarExpr" /\ expr.X.node \in {"SelectorExpr", "Ident"} -> expr.X
                 [] expr.node \in {"SelectorExpr", "Ident"} -> expr
                 [] OTHER -> [node |-> "nil", src |-> "nil"]
    IN  IF expr.node \notin {"StarExpr", "SelectorExpr", "Ident"}
        THEN [err |-> "unknown interface type", iface |-> InterfaceType("expr", <<>>)]
        ELSE IF sel.src # info.rev
        THEN [err |-> "could not find interface in uses", iface |-> InterfaceType("expr", <<>>)]
        ELSE LET path == IF sel.node = "SelectorExpr" THEN sel.X
                         ELSE IF sel.Name \in UniverseNames THEN <<>> ELSE PkgPath
                 name == IF sel.node = "SelectorExpr" THEN sel.Sel ELSE sel.Name
             IN  [err |-> NoErr,
                  iface |-> InterfaceType("expr",
                                ReparseFields(IfaceMethods(info, path, name)))]

\* the map AfterMembers of diffFields, ast.go:324-327: key -> position in
\* `after` (1-based); a later field with the same key replaces an earlier one
AfterMembers(afields) ==
    LET keys == {fieldKey(afields[i], i - 1) : i \in 1..Len(afields)}
    IN  [k \in keys |->
            CHOOSE i \in 1..Len(afields) :
                /\ fieldKey(afields[i], i - 1) = k
                /\ \A j \in (i + 1)..Len(afields) : fieldKey(afields[j], j - 1) # k]

\* the fields of `after` at the positions in S, in list order
RECURSIVE fieldsAt(_, _, _)
fieldsAt(afields, i, S) ==
    IF i > Len(afields) THEN <<>>
    ELSE (IF i \in S THEN <<afields[i]>> ELSE <<>>) \o fieldsAt(afields, i + 1, S)

RECURSIVE exprEqual(_, _, _)
RECURSIVE checkFunc(_, _, _)
RECURSIVE checkChan(_, _, _)
RECURSIVE checkInterface(_, _, _)
RECURSIVE diffFields(_, _, _)
RECURSIVE diffLoop(_, _, _, _, _, _, _)
RECURSIVE RemoveInterfaceCompatible(_, _)
RECURSIVE interfaceLoop(_, _, _, _, _)

\* the loop of diffFields, ast.go:331-349.  What is left in AfterMembers is
\* appended in map order; only the length of `added` and, when it is 1, its
\* element are ever read, so the list order stands for every map order.
diffLoop(c, bfields, afields, i, members, removed, modified) ==
    IF i > Len(bfields)
    THEN [added |-> fieldsAt(afields, 1, {members[k] : k \in DOMAIN members}),
          removed |-> removed, modified |-> modified]
    ELSE LET bfield == bfields[i]
             bkey == fieldKey(bfield, i - 1)
         IN  IF bkey \in DOMAIN members
             THEN LET afield == afields[members[bkey]]
                      rest == [k \in DOMAIN members \ {bkey} |-> members[k]]
                  IN  diffLoop(c, bfields, afields, i + 1, rest, removed,
                               IF exprEqual(c, bfield.Type, afield.Type) THEN modified
                               ELSE Append(modified, <<bfield, afield>>))
             ELSE diffLoop(c, bfields, afields, i + 1, members,
                           Append(removed, bfield), modified)

\* diffFields, ast.go:322-352
diffFields(c, bfields, afields) ==
    diffLoop(c, bfields, afields, 1, AfterMembers(afields), <<>>, <<>>)

\* checkChan, ast.go:121-135
checkChan(c, b, a) ==
    IF ~exprEqual(c, b.Value, a.Value) THEN breaking("changed channel's type")
    ELSE IF b.Dir # a.Dir
         THEN IF a.Dir # SEND /\ a.Dir # RECV
              THEN nonBreaking("removed channel's direction")
              ELSE breaking("changed channel's direction")
         ELSE none

\* the classification of checkInterface, ast.go:140-150
interfaceChange(r) ==
    IF Added(r) THEN breaking("members added")
    ELSE IF Modified(r) THEN breaking("members changed types")
    ELSE IF Removed(r) THEN nonBreaking("members removed")
    ELSE none

\* checkInterface, ast.go:137-151
checkInterface(c, b, a) == interfaceChange(diffFields(c, b.Methods, a.Methods))

\* the classification of checkStruct, ast.go:157-166
structChange(r) ==
    IF Removed(r) THEN breaking("members removed")
    ELSE IF Modified(r) THEN breaking("members changed types")
    ELSE IF Added(r) THEN nonBreaking("members added")
    ELSE none

\* checkStruct, ast.go:153-167
checkStruct(c, b, a) ==
    LET u == RemoveUnexported(diffFields(c, b.Fields, a.Fields))
    IN  IF u.panic THEN panicChange("index out of range") ELSE structChange(u.d)

\* RemoveVariadicCompatible, ast.go:233-253
RemoveVariadicCompatible(d, c) ==
    IF Len(d.added) = 1 /\ ~Removed(d) /\ ~Modified(d) /\ d.added[1].Type.node = "Ellipsis"
    THEN [d |-> [d EXCEPT !.added = <<>>], msg |-> "added a variadic parameter"]
    ELSE IF /\ ~Added(d) /\ ~Removed(d) /\ Len(d.modified) = 1
            /\ d.modified[1][2].Type.node = "Ellipsis"
            /\ Identical(TypeOf(c.binfo, d.modified[1][1].Type),
                         TypeOf(c.ainfo, d.modified[1][2].Type.Elt))
         THEN [d |-> [d EXCEPT !.modified = <<>>], msg |-> "change parameter to variadic"]
         ELSE [d |-> d, msg |-> ""]

\* the loop of RemoveInterfaceCompatible, ast.go:257-279
interfaceLoop(d, c, i, compatible, msg) ==
    IF i > Len(d.modified)
    THEN [d |-> [d EXCEPT !.modified = removeModified(d.modified, compatible)],
          msg |-> msg, err |-> NoErr]
    ELSE LET b == d.modified[i][1].Type
             a == d.modified[i][2].Type
             btype == TypeOf(c.binfo, b)
             atype == TypeOf(c.ainfo, a)
         IN  IF /\ btype # NilType /\ atype # NilType
                /\ IsInterface(c.binfo, btype) /\ IsInterface(c.ainfo, atype)
             THEN LET bint == exprInterfaceType(c.binfo, b)
                      aint == exprInterfaceType(c.ainfo, a)
                      ch == checkInterface(c, bint.iface, aint.iface)
                  IN  IF bint.err # NoErr THEN [d |-> d, msg |-> msg, err |-> bint.err]
                      ELSE IF aint.err # NoErr THEN [d |-> d, msg |-> msg, err |-> aint.err]
                      ELSE IF ch.err # NoErr THEN [d |-> d, msg |-> msg, err |-> ch.err]
                      ELSE IF ch.Change # Breaking
                           THEN interfaceLoop(d, c, i + 1, Append(compatible, i - 1),
                                              "compatible interface change")
                           ELSE interfaceLoop(d, c, i + 1, compatible, msg)
             ELSE interfaceLoop(d, c, i + 1, compatible, msg)

\* RemoveInterfaceCompatible, ast.go:255-282
RemoveInterfaceCompatible(d, c) == interfaceLoop(d, c, 1, <<>>, "")

\* checkFunc, ast.go:169-212
checkFunc(c, b, a) ==
    LET r == diffFields(c, stripNames(b.Params), stripNames(a.Params))
        v == RemoveVariadicCompatible(r, c)
        ic == RemoveInterfaceCompatible(v.d, c)
    IN  IF ic.err # NoErr THEN errChange(ic.err)
        ELSE IF Changed(ic.d) THEN breaking("parameter types changed")
        ELSE IF b.Results.present /\ ~a.Results.present
             THEN breaking("removed return parameter")
        ELSE IF /\ b.Results.present
                /\ Len(b.Results.List) > 0
                /\ Changed(diffFields(c, stripNames(b.Results.List),
                                      stripNames(a.Results.List)))
             THEN breaking("return parameters changed")
        ELSE IF ic.msg # "" THEN nonBreaking(ic.msg)
        ELSE IF v.msg # "" THEN nonBreaking(v.msg)
        ELSE none

\* exprEqual, ast.go:366-391: the error checkChan / checkFunc return is dropped
exprEqual(c, b, a) ==
    IF b.node # a.node THEN FALSE
    ELSE IF b.node = "ChanType" THEN checkChan(c, b, a).Change # Breaking
    ELSE IF b.node = "FuncType" THEN checkFunc(c, b, a).Change # Breaking
    ELSE TypeString(TypeOf(c.binfo, b)) = TypeString(TypeOf(c.ainfo, a))

\* types.Object.String of the variable or constant a ValueSpec declares
ObjString(info, tok, spec) ==
    <<tok, " ">> \o PkgPath \o <<".">> \o spec.Names[1] \o <<" ">>
    \o TypeString(TypeOf(info, spec.Type))

\* a Check that lets a change of kind pass as compatible
CheckLenient(c, b, a) ==
    IF b.node # a.node THEN nonBreaking("changed declaration") ELSE none

\* Check, ast.go:53-119
Check(c, b, a) ==
    IF b.node # a.node THEN breaking("changed declaration")
    ELSE IF b.node = "GenDecl"
    THEN LET bspec == b.Specs[1]
             aspec == a.Specs[1]
         IN  IF bspec.node # aspec.node THEN breaking("changed spec")
             ELSE IF bspec.node = "ValueSpec"
             THEN IF /\ ~Identical(TypeOf(c.binfo, bspec.Type), TypeOf(c.ainfo, aspec.Type))
                     /\ ObjString(c.binfo, b.Tok, bspec) # ObjString(c.ainfo, a.Tok, aspec)
                  THEN breaking("changed type")
                  ELSE none
             ELSE IF bspec.node = "TypeSpec"
             THEN IF bspec.Type.node # aspec.Type.node
                  THEN breaking("changed type of value spec")
                  ELSE CASE bspec.Type.node = "InterfaceType" ->
                                checkInterface(c, bspec.Type, aspec.Type)
                         [] bspec.Type.node = "StructType" ->
                                checkStruct(c, bspec.Type, aspec.Type)
                         [] bspec.Type.node = "Ident" ->
                                IF bspec.Type.Name # aspec.Type.Name
                                THEN breaking("alias changed its underlying type")
                                ELSE none
                         [] OTHER -> none
             ELSE none
    ELSE IF b.node = "FuncDecl" THEN checkFunc(c, b.Type, a.Type)
    ELSE errChange("unknown declaration type")

-----------------------------------------------------------------------------
(* The extractor, abicheck.go.  A Go map is a function; its keys are the   *)
(* declaration IDs.                                                        *)
EmptyMap == <<>>
Put(m, k, v) == [x \in (DOMAIN m) \cup {k} |-> IF x = k THEN v ELSE m[x]]

\* the loop over s.Names, abicheck.go:229-242: every iteration assigns id
\* and decl anew; acc is [id, decl], j the 1-based position
RECURSIVE valueLoop(_, _, _, _)
valueLoop(tok, s, j, acc) ==
    IF j > Len(s.Names) THEN acc
    ELSE valueLoop(tok, s, j + 1,
            [id |-> s.Names[j],
             decl |-> GenDecl(tok,
                        <<ValueSpec(<<s.Names[j]>>, s.Type,
                                    IF Len(s.Values) - 1 >= j - 1 THEN <<s.Values[j]>>
                                    ELSE <<>>)>>)])

\* the loop over d.Specs, abicheck.go:220-258; st is [decls, priv, returned]
RECURSIVE specLoop(_, _, _)
specLoop(st, d, i) ==
    IF i > Len(d.Specs) THEN st
    ELSE LET sp == d.Specs[i]
             got == IF sp.node = "ValueSpec"
                    THEN valueLoop(d.Tok, sp, 1, [id |-> <<>>, decl |-> [node |-> "nil"]])
                    ELSE [id |-> sp.Name, decl |-> GenDecl(d.Tok, <<sp>>)]
         IN  IF sp.node = "ImportSpec" THEN specLoop(st, d, i + 1)
             ELSE IF IsExported(got.id)
             THEN specLoop([st EXCEPT !.decls = Put(st.decls, got.id, got.decl)], d, i + 1)
             ELSE specLoop([st EXCEPT !.priv = Put(st.priv, got.id, got.decl)], d, i + 1)

\* the receiver's type name, abicheck.go:266-273 ("" without a receiver)
recvOf(d) ==
    IF Len(d.Recv) > 0
    THEN CASE d.Recv[1].Type.node = "Ident" -> d.Recv[1].Type.Name
           [] d.Recv[1].Type.node = "StarExpr" -> d.Recv[1].Type.X.Name
           [] OTHER -> <<>>
    ELSE <<>>

\* the declaration's ID, abicheck.go:262-275
funcID(d) == IF Len(d.Recv) > 0 THEN recvOf(d) \o <<".">> \o d.Name ELSE d.Name

\* the identifiers a result list returns, bare or behind one pointer,
\* abicheck.go:285-296
RECURSIVE returnedOf(_)
returnedOf(list) ==
    IF Len(list) = 0 THEN <<>>
    ELSE (CASE list[1].Type.node = "Ident" -> <<list[1].Type.Name>>
            [] list[1].Type.node = "StarExpr" /\ list[1].Type.X.node = "Ident" ->
                  <<list[1].Type.X.Name>>
            [] OTHER -> <<>>)
         \o returnedOf(Tail(list))

\* the FuncDecl case, abicheck.go:259-299; the body is set to nil in place
funcCase(st, d) ==
    LET nobody == [d EXCEPT !.Body = FALSE]
    IN  IF IsExported(d.Name) /\ (recvOf(d) = <<>> \/ IsExported(recvOf(d)))
        THEN [st EXCEPT !.decls = Put(st.decls, funcID(d), nobody),
                        !.returned = st.returned \o
                            (IF d.Type.Results.present THEN returnedOf(d.Type.Results.List)
                             ELSE <<>>)]
        ELSE [st EXCEPT !.priv = Put(st.priv, funcID(d), nobody)]

\* the loop over file.Decls, abicheck.go:213-303
RECURSIVE declLoop(_, _, _)
declLoop(st, fdecls, i) ==
    IF i > Len(fdecls) THEN st
    ELSE declLoop(IF fdecls[i].node = "GenDecl" THEN specLoop(st, fdecls[i], 1)
                  ELSE funcCase(st, fdecls[i]),
                  fdecls, i + 1)

\* the loop over files, abicheck.go:212-304
RECURSIVE fileLoop(_, _, _)
fileLoop(st, fs, i) ==
    IF i > Len(fs) THEN st ELSE fileLoop(declLoop(st, fs[i], 1), fs, i + 1)

\* the private declarations one returned identifier promotes,
\* abicheck.go:309-323: the declaration of that name, and every private ID
\* that starts with the name and, one character on, goes on exported
promoted(priv, id) ==
    {rid \in DOMAIN priv :
        \/ rid = id
        \/ /\ ~(Len(rid) <= Len(id) + 1)
           /\ id = SubSeq(rid, 1, Len(id))
           /\ IsExported(SubSeq(rid, Len(id) + 2, Len(rid)))}

\* the loop over returned, abicheck.go:307-324
RECURSIVE promoteLoop(_, _, _, _)
promoteLoop(ds, priv, returned, i) ==
    IF i > Len(returned) THEN ds
    ELSE LET ids == promoted(priv, returned[i])
         IN  promoteLoop([x \in (DOMAIN ds) \cup ids |-> IF x \in ids THEN priv[x] ELSE ds[x]],
                         priv, returned, i + 1)

\* pkgDecls, abicheck.go:201-326
pkgDecls(fs) ==
    LET st == fileLoop([decls |-> EmptyMap, priv |-> EmptyMap, returned |-> <<>>], fs, 1)
    IN  promoteLoop(st.decls, st.priv, st.returned, 1)

\* astDecl.(*ast.FuncDecl).Body = nil, abicheck.go:276: what pkgDecls leaves
\* of the files it was given
nilBodies(fs) ==
    [i \in 1..Len(fs) |->
        [j \in 1..Len(fs[i]) |->
            IF fs[i][j].node = "FuncDecl" THEN [fs[i][j] EXCEPT !.Body = FALSE]
            ELSE fs[i][j]]]

-----------------------------------------------------------------------------
(* The driver, abicheck.go.  A Checker is [b, a, err]; b and a map the      *)
(* package's import path to [decls, info].  What the VCS holds at a         *)
(* revision is [err, src]: the error reading, building or type-checking it  *)
(* gives (NoErr if none) and the text of its declarations.                  *)

NewDeclChecker(bi, ai) == [binfo |-> bi, ainfo |-> ai]

NilPkgs == <<>>
New == [b |-> NilPkgs, a |-> NilPkgs, err |-> NoErr]

\* the Change records carry no Pos: source positions are not modelled
Change(pkg, id, ch, msg, bdecl, adecl) ==
    [Pkg |-> pkg, ID |-> id, Msg |-> msg, Change |-> ch, Before |-> bdecl, After |-> adecl]
NoDecl == [node |-> "none"]

\* parser.ParseFile on the text of one declaration; `s` names the parse
ParseDecl(s, text) ==
    CASE text = "var B int" -> GenDecl("var", <<ValueSpec(<<<<"B">>>>, Ident(s, <<"i", "n", "t">>), <<>>)>>)
      [] text = "var B string" -> GenDecl("var", <<ValueSpec(<<<<"B">>>>, Ident(s, <<"s", "t", "r", "i", "n", "g">>), <<>>)>>)
      [] text = "func Ab(a int)" ->
            FuncDecl(<<>>, <<"A", "b">>,
                     FuncType(s, <<Field(<<<<"a">>>>, Ident(s, <<"i", "n", "t">>))>>, NoResults), TRUE)
      [] text = "func Ab(a ...int)" ->
            FuncDecl(<<>>, <<"A", "b">>,
                     FuncType(s, <<Field(<<<<"a">>>>, Ellipsis(s, Ident(s, <<"i", "n", "t">>)))>>,
                              NoResults), TRUE)
      [] text = "type Aa struct{}" -> GenDecl("type", <<TypeSpec(<<"A", "a">>, StructType(s, <<>>))>>)
      [] text = "func A(a interface{})" ->
            FuncDecl(<<>>, <<"A">>,
                     FuncType(s, <<Field(<<<<"a">>>>, InterfaceType(s, <<>>))>>, NoResults), TRUE)
      [] text = "func A(a interface{ M() })" ->
            FuncDecl(<<>>, <<"A">>,
                     FuncType(s, <<Field(<<<<"a">>>>,
                                         InterfaceType(s, <<Field(<<<<"M">>>>,
                                                                  FuncType(s, <<>>, NoResults))>>))>>,
                              NoResults), TRUE)
ParseFile(s, src) == [i \in 1..Len(src) |-> ParseDecl(s, src[i])]

\* parse, abicheck.go:117-196: the packages of the revision, and the Checker
\* with err set if the revision could not be read, built or type-checked
parse(c, rev, s) ==
    IF rev.err # NoErr
    THEN [c |-> [c EXCEPT !.err = rev.err], pkgs |-> NilPkgs]
    ELSE [c |-> c,
          pkgs |-> [k \in {PkgPath} |->
                       [decls |-> pkgDecls(<<ParseFile(s, rev.src)>>),
                        info |-> [rev |-> s, ifaces |-> <<>>]]]]

\* the orders a range over a map with these keys can take
Orders(keys) ==
    {o \in [1..Cardinality(keys) -> keys] : \A i, j \in 1..Cardinality(keys) : i < j => o[i] # o[j]}

RECURSIVE removedLoop(_, _, _, _, _, _)
RECURSIVE compared(_, _, _, _, _, _, _)
\* for id, bDecl := range bpkg.decls, abicheck.go:388-416
removedLoop(d, bpkg, apkg, order, i, changes) ==
    IF i > Len(order) THEN [changes |-> changes, err |-> NoErr, panic |-> FALSE]
    ELSE IF order[i] \notin DOMAIN apkg.decls
    THEN removedLoop(d, bpkg, apkg, order, i + 1,
           Append(changes, Change(PkgPath, order[i], Breaking, "declaration removed",
                                  bpkg.decls[order[i]], NoDecl)))
    ELSE compared(d, bpkg, apkg, order, i, changes,
                  Check(d, bpkg.decls[order[i]], apkg.decls[order[i]]))

\* the rest of the loop's body, once change, err := d.Check(bDecl, aDecl)
\* has returned ch, abicheck.go:399-415
compared(d, bpkg, apkg, order, i, changes, ch) ==
    IF ch.panic THEN [changes |-> <<>>, err |-> ch.err, panic |-> TRUE]
    ELSE IF ch.err # NoErr THEN [changes |-> <<>>, err |-> ch.err, panic |-> FALSE]
    ELSE IF ch.Change = None THEN removedLoop(d, bpkg, apkg, order, i + 1, changes)
    ELSE removedLoop(d, bpkg, apkg, order, i + 1,
           Append(changes, Change(PkgPath, order[i], ch.Change, ch.Msg,
                                  bpkg.decls[order[i]], apkg.decls[order[i]])))

RECURSIVE addedLoop(_, _, _, _, _)
\* for id, aDecl := range apkg.decls, abicheck.go:418-424
addedLoop(bpkg, apkg, order, i, changes) ==
    IF i > Len(order) THEN changes
    ELSE IF order[i] \notin DOMAIN bpkg.decls
    THEN addedLoop(bpkg, apkg, order, i + 1,
           Append(changes, Change(PkgPath, order[i], NonBreaking, "declaration added",
                                  NoDecl, apkg.decls[order[i]])))
    ELSE addedLoop(bpkg, apkg, order, i + 1, changes)

\* the second loop, unless the first returned early
thenAdded(bpkg, apkg, aorder, r) ==
    IF r.panic \/ r.err # NoErr THEN r
    ELSE [r EXCEPT !.changes = addedLoop(bpkg, apkg, aorder, 1, r.changes)]

\* the body of the loop over c.b for a package of both revisions
comparePkg(bpkg, apkg, border, aorder) ==
    thenAdded(bpkg, apkg, aorder,
              removedLoop(NewDeclChecker(bpkg.info, apkg.info), bpkg, apkg, border, 1, <<>>))

\* compareDecls, abicheck.go:377-427, the maps ranged over in the orders
\* border and aorder
compareDecls(c, border, aorder) ==
    IF PkgPath \notin DOMAIN c.b THEN [changes |-> <<>>, err |-> NoErr, panic |-> FALSE]
    ELSE IF PkgPath \notin DOMAIN c.a
    THEN [changes |-> <<Change(PkgPath, <<>>, Breaking, "package removed", NoDecl, NoDecl)>>,
          err |-> NoErr, panic |-> FALSE]
    ELSE comparePkg(c.b[PkgPath], c.a[PkgPath], border, aorder)

\* the byte order of the characters identifiers are made of
Ascii ==
    <<".", "A", "B", "C", "D", "E", "F", "G", "H", "I", "J", "K", "L", "M", "N", "O", "P", "Q",
      "R", "S", "T", "U", "V", "W", "X", "Y", "Z", "_", "a", "b", "c", "d", "e", "f", "g", "h",
      "i", "j", "k", "l", "m", "n", "o", "p", "q", "r", "s", "t", "u", "v", "w", "x", "y", "z">>
Ord(ch) == CHOOSE i \in 1..Len(Ascii) : Ascii[i] = ch
\* x < y on strings
StringLess(x, y) ==
    \E k \in 1..(Len(y)) :
        /\ \A j \in 1..(k - 1) : j <= Len(x) /\ x[j] = y[j]
        /\ k - 1 <= Len(x)
        /\ (k > Len(x) \/ Ord(x[k]) < Ord(y[k]))
\* byID.Less, abicheck.go:362
Less(x, y) == StringLess(x.ID, y.ID)

\* the list left as compareDecls built it
Unsorted(changes) == {changes}

\* sort.Sort(byID(changes)), abicheck.go:96: the sort is not stable, any
\* arrangement that Less does not contradict can come out
SortByID(changes) ==
    {[i \in 1..Len(changes) |-> changes[o[i]]] : o \in
        {o \in Orders(1..Len(changes)) :
            \A i, j \in 1..Len(changes) : i < j => ~Less(changes[o[j]], changes[o[i]])}}

\* what Checker.Check returns; err is the parts of the error's text, empty
\* for a nil error
Return(changes, err, panic) == [changes |-> changes, err |-> err, panic |-> panic]
NoReturn == Return(<<>>, <<>>, FALSE)

\* what Checker.Check returns after compareDecls returned r,
\* abicheck.go:84-102
returns(r) ==
    IF r.panic THEN {Return(<<>>, <<r.err>>, TRUE)}
    ELSE IF r.err # NoErr
    THEN {Return(<<>>, <<"error comparing declarations: ", r.err, "\n">>, FALSE)}
    ELSE {Return(sorted, <<>>, FALSE) : sorted \in SortByID(r.changes)}

\* the keys of the package's declaration map
declIDs(pkgs) == IF PkgPath \in DOMAIN pkgs THEN DOMAIN pkgs[PkgPath].decls ELSE {}

\* abicheck.go:77-102: the values Checker.Check can return once both
\* revisions are parsed
checked(c) ==
    IF c.err # NoErr THEN {Return(<<>>, <<c.err>>, FALSE)}
    ELSE UNION {returns(r) : r \in {compareDecls(c, border, aorder) :
                                       border \in Orders(declIDs(c.b)),
                                       aorder \in Orders(declIDs(c.a))}}

\* c.b = c.parse(beforeRev); c.a = c.parse(afterRev), abicheck.go:73-74
parsed(pb, pa) == [pa.c EXCEPT !.b = pb.pkgs, !.a = pa.pkgs]
parseBoth(pb, afterRev) == parsed(pb, parse(pb.c, afterRev, "a"))

\* Checker.Check, abicheck.go:54-103: the Checker the call leaves; what it
\* returns is one of checked(that Checker)
CheckerCheck(c, beforeRev, afterRev) == parseBoth(parse(c, beforeRev, "b"), afterRev)

-----------------------------------------------------------------------------
(* Inputs.  The declarations a revision can hold are drawn from the sets   *)
(* below; `s` is the revision the nodes are parsed from.                   *)

\* the longest member list of an interface or struct, and parameter list
MaxMembers == 2
MaxParams == 2

int(s) == Ident(s, <<"i", "n", "t">>)
string(s) == Ident(s, <<"s", "t", "r", "i", "n", "g">>)
\* a type the package under test defines, and one it imports
localT(s) == Ident(s, <<"T">>)
extT(s) == SelectorExpr(s, <<"x">>, <<"T">>)

\* the names a field list declares
NamesOf(l) == UNION {{l[i].Names[j] : j \in 1..Len(l[i].Names)} : i \in 1..Len(l)}

\* A field list the compiler accepts: no name but the blank `_` declared
\* twice, no type embedded twice, `...T` only as the type of the last field,
\* alone.
Blank == <<"_">>
ValidFields(l) ==
    /\ \A i, j \in 1..Len(l) :
          i < j => /\ {l[i].Names[k] : k \in 1..Len(l[i].Names)}
                      \cap {l[j].Names[k] : k \in 1..Len(l[j].Names)} \subseteq {Blank}
                   /\ (Len(l[i].Names) = 0 /\ Len(l[j].Names) = 0) => l[i].Type # l[j].Type
    /\ \A i \in 1..Len(l) :
          /\ \A k, m \in 1..Len(l[i].Names) :
                k < m => l[i].Names[k] # l[i].Names[m] \/ l[i].Names[k] = Blank
          /\ l[i].Type.node = "Ellipsis" => i = Len(l) /\ Len(l[i].Names) <= 1

\* the valid field lists of at most n fields over a set of fields
FieldLists(fields, n) ==
    {l \in UNION {[1..k -> fields] : k \in 0..n} : ValidFields(l)}

NoIfaces == [k \in {} |-> <<>>]
Info(rev, ifaces) == [rev |-> rev, ifaces |-> ifaces]

\* -- interfaces
MethodSigs(s) ==
    { FuncType(s, <<>>, NoResults),
      FuncType(s, <<>>, Results(<<Field(<<>>, int(s))>>)),
      FuncType(s, <<Field(<<<<"a">>>>, int(s))>>, NoResults),
      FuncType(s, <<Field(<<<<"a">>>>, string(s))>>, NoResults),
      FuncType(s, <<Field(<<<<"a">>>>, Ellipsis(s, int(s)))>>, NoResults),
      FuncType(s, <<Field(<<<<"a">>>>, int(s)), Field(<<<<"b">>>>, Ellipsis(s, int(s)))>>,
               NoResults),
      FuncType(s, <<Field(<<<<"a">>, <<"b">>>>, int(s))>>, NoResults),
      FuncType(s, <<Field(<<<<"a">>>>, int(s)), Field(<<<<"b">>>>, int(s))>>, NoResults) }
MethodNames == {<<"A">>, <<"B">>}
\* a method, or an embedded interface (a field without names)
IfaceMembers(s) ==
    {Field(<<n>>, sig) : n \in MethodNames, sig \in MethodSigs(s)}
    \cup {Field(<<>>, SelectorExpr(s, <<"i", "o">>, <<"R">>))}
TypeDecl(name, type) == GenDecl("type", <<TypeSpec(name, type)>>)
IfaceDecls(s) ==
    {TypeDecl(<<"I">>, InterfaceType(s, l)) : l \in FieldLists(IfaceMembers(s), MaxMembers)}

\* -- structs
FieldNameGroups ==
    {<<<<"X">>>>, <<<<"Y">>>>, <<<<"y">>>>, <<<<"X">>, <<"Y">>>>, <<<<"y">>, <<"X">>>>,
     <<<<"X">>, <<"y">>>>}
\* named fields, alone or in a group `x, y T`, and embedded fields
StructFields(s) ==
    {Field(g, t) : g \in FieldNameGroups, t \in {int(s), string(s)}}
    \cup {Field(<<>>, localT(s)), Field(<<>>, extT(s))}
StructDecls(s) ==
    {TypeDecl(<<"S">>, StructType(s, l)) : l \in FieldLists(StructFields(s), MaxMembers)}

\* -- functions
\* the named interface types of the package under test, in both revisions
IfaceI(s) == Ident(s, <<"I">>)
IfaceJ(s) == Ident(s, <<"J">>)
FuncIfaces(s) ==
    [k \in {<<PkgPath, <<"I">>>>, <<PkgPath, <<"J">>>>} |->
        IF k[2] = <<"I">>
        THEN <<Field(<<<<"M">>>>, FuncType(s, <<>>, NoResults)),
               Field(<<<<"N">>>>, FuncType(s, <<>>, NoResults))>>
        ELSE <<Field(<<<<"M">>>>, FuncType(s, <<>>, NoResults))>>]
ParamTypes(s) == {int(s), localT(s), extT(s)}
Params(s) ==
    {Field(g, t) : g \in {<<<<"a">>>>, <<<<"b">>>>, <<<<"a">>, <<"b">>>>}, t \in ParamTypes(s)}
    \cup {Field(<<n>>, Ellipsis(s, t)) : n \in {<<"a">>, <<"b">>}, t \in ParamTypes(s)}
    \cup {Field(<<<<"a">>>>, t) :
            t \in {IfaceI(s), IfaceJ(s), InterfaceType(s, <<>>),
                   InterfaceType(s, <<Field(<<<<"M">>>>, FuncType(s, <<>>, NoResults))>>)}}
ResultLists(s) == {NoResults, Results(<<Field(<<>>, int(s))>>)}
FuncDecls(s) ==
    {FuncDecl(<<>>, <<"F">>, FuncType(s, ps, rs), FALSE) :
        ps \in FieldLists(Params(s), MaxParams), rs \in ResultLists(s)}

\* -- channels, as the type of a value, a struct field, a parameter, a result
ChanTypes(s) ==
    {ChanType(s, d, e) : d \in {BOTH, SEND, RECV}, e \in {int(s), string(s), localT(s)}}
ChanDecls(s) ==
    {GenDecl("var", <<ValueSpec(<<<<"V">>>>, t, <<>>)>>) : t \in ChanTypes(s)}
    \cup {TypeDecl(<<"S">>, StructType(s, <<Field(<<n>>, t)>>)) :
            n \in {<<"C">>, <<"c">>}, t \in ChanTypes(s)}
    \cup {FuncDecl(<<>>, <<"F">>, FuncType(s, <<Field(<<<<"c">>>>, t)>>, NoResults), FALSE) :
            t \in ChanTypes(s)}
    \cup {FuncDecl(<<>>, <<"F">>, FuncType(s, <<>>, Results(<<Field(<<>>, t)>>)), FALSE) :
            t \in ChanTypes(s)}

\* -- declarations of every kind under one name: values, type declarations
\* of a named type, of another type expression, of a struct (with a named, an
\* embedded or a function-typed field), of an interface, and functions
ValueTypes(s) == {int(s), string(s), localT(s), extT(s), ChanType(s, BOTH, int(s))}
AliasTypes(s) ==
    {int(s), string(s), localT(s), extT(s), StarExpr(s, int(s)), ChanType(s, BOTH, int(s)),
     FuncType(s, <<>>, NoResults)}
KindDecls(s) ==
    {GenDecl(tok, <<ValueSpec(<<<<"V">>>>, t, <<>>)>>) : tok \in {"var", "const"}, t \in ValueTypes(s)}
    \cup {TypeDecl(<<"V">>, t) : t \in AliasTypes(s)}
    \cup {TypeDecl(<<"V">>, StructType(s, l)) : l \in FieldLists(StructFields(s), 1)}
    \cup {TypeDecl(<<"V">>, InterfaceType(s, l)) : l \in FieldLists(IfaceMembers(s), 1)}
    \cup {TypeDecl(<<"V">>, StructType(s, <<Field(<<<<"H">>>>,
                                FuncType(s, <<Field(<<<<"a">>>>, t)>>, NoResults))>>)) :
            t \in {InterfaceType(s, <<>>),
                   InterfaceType(s, <<Field(<<<<"M">>>>, FuncType(s, <<>>, NoResults))>>)}}
    \cup {FuncDecl(<<>>, <<"V">>, FuncType(s, ps, rs), FALSE) :
            ps \in FieldLists(Params(s), 1), rs \in ResultLists(s)}

\* -- a declaration and its copy: the same text parsed at the other revision
RECURSIVE copyExpr(_, _)
RECURSIVE copyFields(_, _)
copyFields(l, s) == [i \in 1..Len(l) |-> Field(l[i].Names, copyExpr(l[i].Type, s))]
copyExpr(e, s) ==
    CASE e.node \in {"Ident", "SelectorExpr", "BasicLit"} -> [e EXCEPT !.src = s]
      [] e.node = "StarExpr" -> StarExpr(s, copyExpr(e.X, s))
      [] e.node = "Ellipsis" -> Ellipsis(s, copyExpr(e.Elt, s))
      [] e.node = "ChanType" -> ChanType(s, e.Dir, copyExpr(e.Value, s))
      [] e.node = "FuncType" ->
            FuncType(s, copyFields(e.Params, s),
                     [present |-> e.Results.present, List |-> copyFields(e.Results.List, s)])
      [] e.node = "InterfaceType" -> InterfaceType(s, copyFields(e.Methods, s))
      [] e.node = "StructType" -> StructType(s, copyFields(e.Fields, s))
copySpec(sp, s) ==
    IF sp.node = "ValueSpec"
    THEN ValueSpec(sp.Names, copyExpr(sp.Type, s),
                   [i \in 1..Len(sp.Values) |-> copyExpr(sp.Values[i], s)])
    ELSE TypeSpec(sp.Name, copyExpr(sp.Type, s))
copyDecl(d, s) ==
    IF d.node = "FuncDecl"
    THEN FuncDecl(copyFields(d.Recv, s), d.Name, copyExpr(d.Type, s), d.Body)
    ELSE GenDecl(d.Tok, [i \in 1..Len(d.Specs) |-> copySpec(d.Specs[i], s)])

\* struct fields, with blank fields (padding) and fields of function type
FieldsOfAnyType(s) ==
    StructFields(s)
    \cup {Field(<<Blank>>, t) : t \in {int(s), string(s)}}
    \cup {Field(<<<<"H">>>>, sig) : sig \in MethodSigs(s)}
\* declarations of every kind, methods included
AnyDecls(s) ==
    KindDecls(s) \cup IfaceDecls(s) \cup FuncDecls(s) \cup ChanDecls(s)
    \cup {TypeDecl(<<"S">>, StructType(s, l)) : l \in FieldLists(FieldsOfAnyType(s), MaxMembers)}
    \cup {FuncDecl(<<Field(<<<<"r">>>>, r)>>, <<"F">>, FuncType(s, ps, NoResults), FALSE) :
            r \in {localT(s), StarExpr(s, localT(s))}, ps \in FieldLists(Params(s), 1)}

\* -- packages: the top-level declarations a file can hold
MaxDecls == 3
lit(s, v) == [node |-> "BasicLit", src |-> s, Value |-> v]
structT(s) == StructType(s, <<>>)
Recv(s, t) == <<Field(<<<<"r">>>>, t)>>
TopDecls(s) ==
    { GenDecl("var", <<ValueSpec(<<<<"A">>, <<"B">>>>, int(s), <<>>)>>),
      GenDecl("var", <<ValueSpec(<<<<"D">>, <<"e">>>>, int(s), <<lit(s, "1"), lit(s, "2")>>)>>),
      GenDecl("const", <<ValueSpec(<<<<"K">>>>, int(s), <<lit(s, "1")>>),
                         ValueSpec(<<<<"l">>>>, int(s), <<lit(s, "2")>>)>>),
      GenDecl("import", <<ImportSpec(<<"x">>)>>),
      TypeDecl(<<"t">>, structT(s)),
      TypeDecl(<<"u">>, structT(s)),
      TypeDecl(<<"T">>, structT(s)),
      \* func N() t;  func (r T) R() *t;  func g() t;  func Q() int
      FuncDecl(<<>>, <<"N">>, FuncType(s, <<>>, Results(<<Field(<<>>, Ident(s, <<"t">>))>>)), TRUE),
      FuncDecl(Recv(s, Ident(s, <<"T">>)), <<"R">>,
               FuncType(s, <<>>, Results(<<Field(<<>>, StarExpr(s, Ident(s, <<"t">>)))>>)), TRUE),
      FuncDecl(<<>>, <<"g">>, FuncType(s, <<>>, Results(<<Field(<<>>, Ident(s, <<"t">>))>>)), TRUE),
      FuncDecl(<<>>, <<"Q">>, FuncType(s, <<>>, Results(<<Field(<<>>, int(s))>>)), TRUE),
      \* func (r t) F();  func (r *t) f();  func (r u) F()
      FuncDecl(Recv(s, Ident(s, <<"t">>)), <<"F">>, FuncType(s, <<>>, NoResults), TRUE),
      FuncDecl(Recv(s, StarExpr(s, Ident(s, <<"t">>))), <<"f">>, FuncType(s, <<>>, NoResults), TRUE),
      FuncDecl(Recv(s, Ident(s, <<"u">>)), <<"F">>, FuncType(s, <<>>, NoResults), TRUE),
      \* func t_H();  func int_X()
      FuncDecl(<<>>, <<"t", "_", "H">>, FuncType(s, <<>>, NoResults), TRUE),
      FuncDecl(<<>>, <<"i", "n", "t", "_", "X">>, FuncType(s, <<>>, NoResults), TRUE) }

\* the type names a list of declarations declares
TypeNamesOf(l) ==
    UNION {IF l[i].node = "GenDecl"
           THEN {l[i].Specs[k].Name : k \in {k \in 1..Len(l[i].Specs) :
                                                l[i].Specs[k].node = "TypeSpec"}}
           ELSE {} : i \in 1..Len(l)}
\* the package's type names a function declaration uses
TypeNamesUsed(d) ==
    (IF Len(d.Recv) > 0 THEN {recvOf(d)} ELSE {})
    \cup ({returnedOf(d.Type.Results.List)[k] : k \in 1..Len(returnedOf(d.Type.Results.List))}
          \ BasicNames)
\* Declarations that type-check: none twice, every receiver and result type
\* declared.
ValidDecls(l) ==
    /\ \A i, j \in 1..Len(l) : i < j => l[i] # l[j]
    /\ \A i \in 1..Len(l) : l[i].node = "FuncDecl" => TypeNamesUsed(l[i]) \subseteq TypeNamesOf(l)
DeclLists(s) == {l \in UNION {[1..k -> TopDecls(s)] : k \in 0..MaxDecls} : ValidDecls(l)}
\* one file, or the declarations spread over two
Files(s) ==
    {<<l>> : l \in DeclLists(s)}
    \cup {<<SubSeq(l, 1, 1), SubSeq(l, 2, Len(l))>> : l \in {m \in DeclLists(s) : Len(m) >= 2}}

\* -- revisions: each identifier absent, or declared in one of its forms
MaxIDs == 3
Forms ==
    << {"var B int", "var B string"},
       {"func Ab(a int)", "func Ab(a ...int)"},
       {"type Aa struct{}"},
       {"func A(a interface{})", "func A(a interface{ M() })"} >>
Absent == ""
Sources ==
    {SelectSeq(f, LAMBDA t : t # Absent) :
        f \in {f \in [1..Len(Forms) -> UNION {Forms[i] : i \in 1..Len(Forms)} \cup {Absent}] :
                  /\ \A i \in 1..Len(Forms) : f[i] \in Forms[i] \cup {Absent}
                  /\ Cardinality({i \in 1..Len(Forms) : f[i] # Absent}) <= MaxIDs}}
Revisions ==
    {[err |-> NoErr, src |-> src] : src \in Sources \ {<<>>}}
    \cup {[err |-> e, src |-> <<>>] : e \in {"go/build error", "go/types error"}}
RevNames == {"r1", "r2"}

\* the revisions of a repository a Checker is used on again and again
CallRevisions == {r \in Revisions : Len(r.src) <= 2}

\* what the variables of the other components hold while one is exercised
IdleCheck ==
    /\ before = NoDecl /\ after = NoDecl
    /\ binfo = Info("b", NoIfaces) /\ ainfo = Info("a", NoIfaces)
    /\ change = none
IdleDecls == files = <<>> /\ decls = <<>>
IdleChecker == vcs = <<>> /\ chk = <<>> /\ ret = <<>>

InitIface ==
    /\ before \in IfaceDecls("b")
    /\ after \in IfaceDecls("a")
    /\ binfo = Info("b", NoIfaces)
    /\ ainfo = Info("a", NoIfaces)
    /\ change = none
    /\ pc = "ready"
    /\ IdleDecls /\ IdleChecker

InitStruct ==
    /\ before \in StructDecls("b")
    /\ after \in StructDecls("a")
    /\ binfo = Info("b", NoIfaces)
    /\ ainfo = Info("a", NoIfaces)
    /\ change = none
    /\ pc = "ready"
    /\ IdleDecls /\ IdleChecker

InitFunc ==
    /\ before \in FuncDecls("b")
    /\ after \in FuncDecls("a")
    /\ binfo = Info("b", FuncIfaces("b"))
    /\ ainfo = Info("a", FuncIfaces("a"))
    /\ change = none
    /\ pc = "ready"
    /\ IdleDecls /\ IdleChecker

InitChan ==
    /\ before \in ChanDecls("b")
    /\ after \in ChanDecls("a")
    /\ binfo = Info("b", NoIfaces)
    /\ ainfo = Info("a", NoIfaces)
    /\ change = none
    /\ pc = "ready"
    /\ IdleDecls /\ IdleChecker

InitKinds ==
    /\ before \in KindDecls("b")
    /\ after \in KindDecls("a")
    /\ binfo = Info("b", FuncIfaces("b"))
    /\ ainfo = Info("a", FuncIfaces("a"))
    /\ change = none
    /\ pc = "ready"
    /\ IdleDecls /\ IdleChecker

InitCopy ==
    /\ before \in AnyDecls("b")
    /\ after = copyDecl(before, "a")
    /\ binfo = Info("b", FuncIfaces("b"))
    /\ ainfo = Info("a", FuncIfaces("a"))
    /\ change = none
    /\ pc = "ready"
    /\ IdleDecls /\ IdleChecker

InitDecls ==
    /\ files \in Files("b")
    /\ decls = EmptyMap
    /\ pc = "parsed"
    /\ IdleCheck /\ IdleChecker

InitCompare ==
    /\ vcs \in [RevNames -> Revisions]
    /\ chk = New
    /\ ret = NoReturn
    /\ pc = "created"
    /\ IdleCheck /\ IdleDecls

InitCalls ==
    /\ vcs \in [RevNames -> CallRevisions]
    /\ chk = New
    /\ ret = NoReturn
    /\ pc = "created"
    /\ IdleCheck /\ IdleDecls

\* d := NewDeclChecker(bpkg.info, apkg.info); change, err := d.Check(bDecl, aDecl)
CheckDecl ==
    /\ pc = "ready"
    /\ change' = Check([binfo |-> binfo, ainfo |-> ainfo], before, after)
    /\ pc' = "done"
    /\ UNCHANGED <<before, after, binfo, ainfo, files, decls, vcs, chk, ret>>

NextCheck == CheckDecl

\* p.decls = pkgDecls(files), abicheck.go:191
PkgDecls ==
    /\ pc = "parsed"
    /\ decls' = pkgDecls(files)
    /\ files' = nilBodies(files)
    /\ pc' = "extracted"
    /\ UNCHANGED <<before, after, binfo, ainfo, change, vcs, chk, ret>>

NextDecls == PkgDecls

\* changes, err := c.Check(path, beforeRev, afterRev), on two revisions (that
\* may hold the same text)
CallCheck ==
    /\ pc = "created"
    /\ \E beforeRev \in DOMAIN vcs : \E afterRev \in DOMAIN vcs \ {beforeRev} :
          /\ chk' = CheckerCheck(chk, vcs[beforeRev], vcs[afterRev])
          /\ ret' \in checked(chk')
    /\ pc' = "returned"
    /\ UNCHANGED <<before, after, binfo, ainfo, change, files, decls, vcs>>

NextCompare == CallCheck

\* one more changes, err := c.Check(path, beforeRev, afterRev) on the same
\* Checker, on any two revisions
CallAgain ==
    /\ pc \in {"created", "returned"}
    /\ \E beforeRev \in DOMAIN vcs : \E afterRev \in DOMAIN vcs :
          /\ chk' = CheckerCheck(chk, vcs[beforeRev], vcs[afterRev])
          /\ ret' \in checked(chk')
    /\ pc' = "returned"
    /\ UNCHANGED <<before, after, binfo, ainfo, change, files, decls, vcs>>

NextCalls == CallAgain

SpecIface == InitIface /\ [][NextCheck]_vars

SpecStruct == InitStruct /\ [][NextCheck]_vars
SpecFunc == InitFunc /\ [][NextCheck]_vars
SpecChan == InitChan /\ [][NextCheck]_vars
SpecKinds == InitKinds /\ [][NextCheck]_vars
SpecCopy == InitCopy /\ [][NextCheck]_vars
SpecDecls == InitDecls /\ [][NextDecls]_vars
SpecCompare == InitCompare /\ [][NextCompare]_vars
SpecCalls == InitCalls /\ [][NextCalls]_vars

-----------------------------------------------------------------------------
(* The claims about DeclChecker.Check.                                     *)

\* the type a type expression denotes, parameter names and grouping set
\* aside, as one type-check of both expressions would resolve it
SemType(e) == StripParamNames(TypeOfNode(Info("same", NoIfaces), e))
\* the types of the declared parameters (or fields), one per declared name
FlatTypes(l) ==
    LET ps == SigParams(Info("same", NoIfaces), l)
    IN  [i \in 1..Len(ps) |-> StripParamNames(ps[i].type)]
\* the members of an interface or struct: each declared name with its type,
\* each embedded type
MemberSet(l) ==
    UNION {IF Len(l[i].Names) = 0 THEN {<<<<"(embedded)">>, SemType(l[i].Type)>>}
           ELSE {<<l[i].Names[j], SemType(l[i].Type)>> : j \in 1..Len(l[i].Names)}
           : i \in 1..Len(l)}
TypeOfName(l, n) ==
    SemType(l[CHOOSE i \in 1..Len(l) : \E j \in 1..Len(l[i].Names) : l[i].Names[j] = n].Type)
AllNamed(l) == \A i \in 1..Len(l) : Len(l[i].Names) > 0

IsTypePair(node) ==
    /\ before.node = "GenDecl" /\ after.node = "GenDecl"
    /\ before.Specs[1].node = "TypeSpec" /\ after.Specs[1].node = "TypeSpec"
    /\ before.Specs[1].Type.node = node /\ after.Specs[1].Type.node = node
IsFuncPair == before.node = "FuncDecl" /\ after.node = "FuncDecl"

\* a type expression and a field list as written, whatever revision they
\* are parsed from
RECURSIVE Written(_)
RECURSIVE WrittenFields(_)
WrittenFields(l) == [i \in 1..Len(l) |-> Field(l[i].Names, Written(l[i].Type))]
Written(e) ==
    CASE e.node \in {"Ident", "SelectorExpr"} -> [e EXCEPT !.src = "-"]
      [] e.node = "StarExpr" -> StarExpr("-", Written(e.X))
      [] e.node = "Ellipsis" -> Ellipsis("-", Written(e.Elt))
      [] e.node = "ChanType" -> ChanType("-", e.Dir, Written(e.Value))
      [] e.node = "FuncType" ->
            FuncType("-", WrittenFields(e.Params),
                     [present |-> e.Results.present, List |-> WrittenFields(e.Results.List)])
      [] e.node = "InterfaceType" -> InterfaceType("-", WrittenFields(e.Methods))
      [] e.node = "StructType" -> StructType("-", WrittenFields(e.Fields))
\* the members of an interface as written: methods and embedded interfaces
WrittenSet(l) == {WrittenFields(l)[i] : i \in 1..Len(l)}

\* C1: on two interface declarations, a method name of after that before
\* lacks makes the result Breaking; members only removed, every member of
\* after being written the same in before, make it NonBreaking.
C1_InterfaceAddRemove ==
    (pc = "done" /\ IsTypePair("InterfaceType")) =>
        LET b == before.Specs[1].Type.Methods
            a == after.Specs[1].Type.Methods
        IN  /\ (NamesOf(a) \ NamesOf(b) # {}) => change.Change = Breaking
            /\ (WrittenSet(a) \subseteq WrittenSet(b) /\ WrittenSet(a) # WrittenSet(b))
                  => change.Change = NonBreaking

\* C5: on two interface declarations, a method name in both whose signature
\* differs makes the result Breaking.
C5_ModifiedMethodBreaking ==
    (pc = "done" /\ IsTypePair("InterfaceType")) =>
        LET b == before.Specs[1].Type.Methods
            a == after.Specs[1].Type.Methods
        IN  (\E n \in NamesOf(b) \cap NamesOf(a) : TypeOfName(b, n) # TypeOfName(a, n))
                => change.Change = Breaking

\* C2: on two struct declarations of named fields, a declared name of before
\* that after does not declare makes the result Breaking; names only added,
\* none removed and none with a changed type, make it NonBreaking.  Each name
\* of a group `x, y T` is a declared name.
C2_StructFieldAddRemove ==
    (pc = "done" /\ IsTypePair("StructType")) =>
        LET b == before.Specs[1].Type.Fields
            a == after.Specs[1].Type.Fields
        IN  (AllNamed(b) /\ AllNamed(a)) =>
              /\ (NamesOf(b) \ NamesOf(a) # {}) => change.Change = Breaking
              /\ ( /\ NamesOf(b) \subseteq NamesOf(a)
                   /\ NamesOf(a) \ NamesOf(b) # {}
                   /\ \A n \in NamesOf(b) : TypeOfName(b, n) = TypeOfName(a, n) )
                    => change.Change = NonBreaking

\* C6: on two struct declarations with the same field names, a changed type
\* is ignored exactly for unexported names: only unexported names changed
\* gives None, an exported name changed gives Breaking.
C6_UnexportedInsulation ==
    (pc = "done" /\ IsTypePair("StructType")) =>
        LET b == before.Specs[1].Type.Fields
            a == after.Specs[1].Type.Fields
            changed == {n \in NamesOf(b) \cap NamesOf(a) : TypeOfName(b, n) # TypeOfName(a, n)}
        IN  (AllNamed(b) /\ AllNamed(a) /\ NamesOf(b) = NamesOf(a)) =>
              /\ (\E n \in changed : IsExported(n)) => change.Change = Breaking
              /\ (changed # {} /\ \A n \in changed : ~IsExported(n))
                    => change.Change = None

\* the number of declared parameters: a group `a, b T` counts as two
ParamCount(l) == Len(FlatTypes(l))
\* after is before with one variadic parameter added at its end
OnlyAddedVariadic(b, a) ==
    /\ Len(a) > 0
    /\ a[Len(a)].Type.node = "Ellipsis"
    /\ SubSeq(FlatTypes(a), 1, Len(FlatTypes(a)) - 1) = FlatTypes(b)
\* after is before with one parameter changed from T to ...T
OnlyChangedToVariadic(b, a) ==
    /\ Len(a) > 0 /\ Len(b) > 0
    /\ a[Len(a)].Type.node = "Ellipsis"
    /\ b[Len(b)].Type.node # "Ellipsis"
    /\ Len(FlatTypes(a)) = Len(FlatTypes(b))
    /\ SubSeq(FlatTypes(a), 1, Len(FlatTypes(a)) - 1)
          = SubSeq(FlatTypes(b), 1, Len(FlatTypes(b)) - 1)
    /\ SemType(a[Len(a)].Type.Elt) = SemType(b[Len(b)].Type)
PlainParam(f) == Len(f.Names) = 1 /\ f.Type.node \in {"Ident", "SelectorExpr"}

\* C3: f(a T) -> f(a ...T) is NonBreaking "change parameter to variadic",
\* f(a T) -> f(a T, b ...T) is NonBreaking "added a variadic parameter",
\* f(a T) -> f(a T, b U) is Breaking, for a built-in, package or external T;
\* and a variadic message is returned only when that is the sole difference
\* of the parameter lists.
C3_VariadicPromotion ==
    (pc = "done" /\ IsFuncPair /\ change.err = NoErr) =>
        LET b == before.Type.Params
            a == after.Type.Params
            sameResults == FlatTypes(before.Type.Results.List)
                              = FlatTypes(after.Type.Results.List)
                           /\ before.Type.Results.present = after.Type.Results.present
        IN  /\ (sameResults /\ Len(b) = 1 /\ PlainParam(b[1])) =>
                /\ (Len(a) = 1 /\ OnlyChangedToVariadic(b, a))
                      => change.Change = NonBreaking
                         /\ change.Msg = "change parameter to variadic"
                /\ (Len(a) = 2 /\ OnlyAddedVariadic(b, a)
                    /\ SemType(a[2].Type.Elt) = SemType(b[1].Type))
                      => change.Change = NonBreaking
                         /\ change.Msg = "added a variadic parameter"
                /\ (Len(a) = 2 /\ PlainParam(a[1]) /\ PlainParam(a[2])
                    /\ SemType(a[1].Type) = SemType(b[1].Type))
                      => change.Change = Breaking
            /\ change.Msg = "added a variadic parameter" => OnlyAddedVariadic(b, a)
            /\ change.Msg = "change parameter to variadic" => OnlyChangedToVariadic(b, a)

\* C4: a different number of declared parameters makes the result Breaking,
\* unless the only difference is one added variadic parameter.
C4_ParamCountBreaking ==
    (pc = "done" /\ IsFuncPair /\ change.err = NoErr) =>
        LET b == before.Type.Params
            a == after.Type.Params
        IN  (ParamCount(b) # ParamCount(a) /\ ~OnlyAddedVariadic(b, a))
                => change.Change = Breaking

\* where a declaration of ChanDecls holds its channel type, and the channel
ChanPlace(d) ==
    IF d.node = "FuncDecl"
    THEN IF Len(d.Type.Params) = 1 THEN <<"parameter">> ELSE <<"result">>
    ELSE IF d.Specs[1].node = "ValueSpec" THEN <<"value">>
         ELSE <<"field", d.Specs[1].Type.Fields[1].Names>>
ChanOf(d) ==
    IF d.node = "FuncDecl"
    THEN IF Len(d.Type.Params) = 1 THEN d.Type.Params[1].Type ELSE d.Type.Results.List[1].Type
    ELSE IF d.Specs[1].node = "ValueSpec" THEN d.Specs[1].Type
         ELSE d.Specs[1].Type.Fields[1].Type

\* C7: when only the direction of a channel type differs (in a value's type,
\* an exported struct field, a parameter or a result), widening to a
\* bidirectional channel is NonBreaking and every other change is Breaking.
C7_ChanDirection ==
    ( /\ pc = "done"
      /\ ChanPlace(before) = ChanPlace(after)
      /\ ChanPlace(before) # <<"field", <<<<"c">>>>>>
      /\ SemType(ChanOf(before).Value) = SemType(ChanOf(after).Value)
      /\ ChanOf(before).Dir # ChanOf(after).Dir ) =>
        IF ChanOf(after).Dir = BOTH THEN change.Change = NonBreaking
        ELSE change.Change = Breaking

-----------------------------------------------------------------------------
(* The claims about pkgDecls.                                              *)

\* the declarations of the files, one by one
AllDecls == UNION {{files[i][j] : j \in 1..Len(files[i])} : i \in 1..Len(files)}
AllFuncs == {d \in AllDecls : d.node = "FuncDecl"}
AllSpecs(node) ==
    UNION {{d.Specs[k] : k \in {k \in 1..Len(d.Specs) : d.Specs[k].node = node}}
           : d \in {d \in AllDecls : d.node = "GenDecl"}}

\* an exported function, or an exported method on an exported receiver
ExportedFunc(d) == IsExported(d.Name) /\ (Len(d.Recv) = 0 \/ IsExported(recvOf(d)))
\* the names its result types are, bare or behind one pointer
ResultNames(d) ==
    {n \in {sp.Name : sp \in AllSpecs("TypeSpec")} :
        \E k \in 1..Len(d.Type.Results.List) :
            LET ty == d.Type.Results.List[k].Type
            IN  \/ ty.node = "Ident" /\ ty.Name = n
                \/ ty.node = "StarExpr" /\ ty.X.node = "Ident" /\ ty.X.Name = n}
\* (i) the unexported types an exported function returns
RecordedTypes ==
    {n \in {sp.Name : sp \in AllSpecs("TypeSpec")} :
        ~IsExported(n) /\ \E d \in AllFuncs : ExportedFunc(d) /\ n \in ResultNames(d)}
\* (ii) the exported methods on those types
RecordedMethods ==
    {d \in AllFuncs : Len(d.Recv) > 0 /\ IsExported(d.Name) /\ recvOf(d) \in RecordedTypes}

\* whether a declaration of the returned map has an unexported element
HasUnexported(d) ==
    IF d.node = "FuncDecl"
    THEN ~IsExported(d.Name) \/ (Len(d.Recv) > 0 /\ ~IsExported(recvOf(d)))
    ELSE \E k \in 1..Len(d.Specs) :
            IF d.Specs[k].node = "TypeSpec" THEN ~IsExported(d.Specs[k].Name)
            ELSE \E j \in 1..Len(d.Specs[k].Names) : ~IsExported(d.Specs[k].Names[j])

\* C8: the returned map holds a declaration with an unexported element
\* exactly for (i) the unexported types an exported function (or exported
\* method on an exported receiver) returns and (ii) the exported methods on
\* such a type.
C8_OnlyPromotedPrivate ==
    (pc = "extracted") =>
        {decls[id] : id \in {id \in DOMAIN decls : HasUnexported(decls[id])}}
          = {TypeDecl(n, (CHOOSE sp \in AllSpecs("TypeSpec") : sp.Name = n).Type)
                : n \in RecordedTypes}
            \cup RecordedMethods

\* C9: every exported name of a var/const specification is a key of the
\* returned map, and its entry is a declaration of that one name.
C9_OneValuePerName ==
    (pc = "extracted") =>
        \A sp \in AllSpecs("ValueSpec") : \A j \in 1..Len(sp.Names) :
            IsExported(sp.Names[j]) =>
                /\ sp.Names[j] \in DOMAIN decls
                /\ decls[sp.Names[j]].node = "GenDecl"
                /\ Len(decls[sp.Names[j]].Specs) = 1
                /\ decls[sp.Names[j]].Specs[1].Names = <<sp.Names[j]>>

-----------------------------------------------------------------------------
(* The claims about Checker.Check.                                         *)

\* the positions of the returned list that hold a record of this identifier
RecordsOf(id) == {i \in 1..Len(ret.changes) : ret.changes[i].ID = id}
\* the identifier has exactly one record, of this classification and message
OneRecord(id, ch, msg) ==
    \E i \in 1..Len(ret.changes) :
        /\ RecordsOf(id) = {i}
        /\ ret.changes[i].Change = ch
        /\ ret.changes[i].Msg = msg

\* C10: when Checker.Check returns a nil error for a package present in both
\* revisions, the returned list is in strictly ascending order of ID (so holds
\* at most one record per identifier) and holds exactly: one Breaking
\* "declaration removed" record per identifier only in the before map, one
\* NonBreaking "declaration added" record per identifier only in the after
\* map, one record with DeclChecker.Check's classification and message per
\* identifier of both maps not classified None, and no record for the
\* identifiers classified None.
C10_SortedOneChangePerID ==
    (pc = "returned" /\ ret.err = <<>> /\ ~ret.panic) =>
        LET bd == chk.b[PkgPath].decls
            ad == chk.a[PkgPath].decls
            d == NewDeclChecker(chk.b[PkgPath].info, chk.a[PkgPath].info)
        IN  /\ \A i \in 1..(Len(ret.changes) - 1) :
                  StringLess(ret.changes[i].ID, ret.changes[i + 1].ID)
            /\ \A i \in 1..Len(ret.changes) : ret.changes[i].ID \in DOMAIN bd \cup DOMAIN ad
            /\ \A id \in DOMAIN bd \ DOMAIN ad : OneRecord(id, Breaking, "declaration removed")
            /\ \A id \in DOMAIN ad \ DOMAIN bd : OneRecord(id, NonBreaking, "declaration added")
            /\ \A id \in DOMAIN bd \cap DOMAIN ad :
                  LET c == Check(d, bd[id], ad[id])
                  IN  IF c.Change = None THEN RecordsOf(id) = {}
                      ELSE OneRecord(id, c.Change, c.Msg)

\* a call that returned a removed, an added and a changed declaration, and
\* left an unchanged one out
C10_Witness ==
    /\ pc = "returned" /\ ret.err = <<>> /\ ~ret.panic
    /\ Len(ret.changes) = 3
    /\ \E i, j, k \in 1..Len(ret.changes) :
          /\ ret.changes[i].Msg = "declaration removed" /\ ret.changes[i].After = NoDecl
          /\ ret.changes[j].Msg = "declaration added" /\ ret.changes[j].Before = NoDecl
          /\ ret.changes[k].Before # NoDecl /\ ret.changes[k].After # NoDecl
    /\ \E id \in DOMAIN chk.b[PkgPath].decls \cap DOMAIN chk.a[PkgPath].decls :
          RecordsOf(id) = {}

-----------------------------------------------------------------------------
(* The claims about DeclChecker.Check on declarations of any kind.         *)

\* the Kind of a declaration: Value, TypeAlias, Struct, Interface or Function
Kind(d) ==
    IF d.node = "FuncDecl" THEN "Function"
    ELSE IF d.Specs[1].node = "ValueSpec" THEN "Value"
    ELSE IF d.Specs[1].Type.node = "StructType" THEN "Struct"
    ELSE IF d.Specs[1].Type.node = "InterfaceType" THEN "Interface"
    ELSE "TypeAlias"

\* C11: whenever the before and the after declaration differ in Kind, Check
\* returns Breaking, with no error and no crash, by one of its returns that
\* precede every look into the declarations (changed declaration, changed
\* spec, changed type of value spec).
C11_KindChangeBreaking ==
    (pc = "done" /\ Kind(before) # Kind(after)) =>
        /\ change.Change = Breaking
        /\ change.err = NoErr
        /\ ~change.panic
        /\ change.Msg \in {"changed declaration", "changed spec", "changed type of value spec"}

\* a struct that became a function, and a value that became an interface,
\* compared
C11_Witness ==
    /\ pc = "done"
    /\ change.Change = Breaking
    /\ \/ Kind(before) = "Struct" /\ Kind(after) = "Function"
       \/ Kind(before) = "Value" /\ Kind(after) = "Interface"

\* C12: Check of a declaration against its identical copy from the other
\* revision returns None, with no error and no crash.
C12_CopyIsNone ==
    (pc = "done" /\ after = copyDecl(before, "a")) =>
        /\ change.Change = None
        /\ change.err = NoErr
        /\ ~change.panic

\* the members of a struct or an interface declaration
MembersOf(d) ==
    IF Kind(d) = "Struct" THEN d.Specs[1].Type.Fields
    ELSE IF Kind(d) = "Interface" THEN d.Specs[1].Type.Methods
    ELSE <<>>
\* a member of function type, present in both declarations, for which the
\* interface-compatibility exception fails to resolve an interface
MemberFailsToResolve ==
    /\ Kind(before) = Kind(after)
    /\ \E i \in 1..Len(MembersOf(before)), j \in 1..Len(MembersOf(after)) :
          /\ fieldKey(MembersOf(before)[i], i - 1) = fieldKey(MembersOf(after)[j], j - 1)
          /\ MembersOf(before)[i].Type.node = "FuncType"
          /\ MembersOf(after)[j].Type.node = "FuncType"
          /\ checkFunc(NewDeclChecker(binfo, ainfo),
                       MembersOf(before)[i].Type, MembersOf(after)[j].Type).err # NoErr

\* C13: Check never crashes; it returns one of None, NonBreaking, Breaking,
\* or else an error, which is a failure to resolve an interface's method set;
\* and a failure to resolve an interface never ends as a classification.
C13_CheckTotal ==
    (pc = "done") =>
        /\ ~change.panic
        /\ change.err = NoErr => change.Change \in {None, NonBreaking, Breaking}
        /\ change.err # NoErr =>
              change.err \in {"unknown interface type", "could not find interface in uses"}
        /\ MemberFailsToResolve => change.err # NoErr

-----------------------------------------------------------------------------
(* The claims about a Checker used for several calls.                      *)

\* C14: whatever calls came before, a call whose two revisions both parse
\* returns what a new Checker returns on the same revisions: its changes and
\* a nil error (or the error of the comparison), never the error of an
\* earlier call.
C14_CallsIndependent ==
    (pc = "returned" /\ PkgPath \in DOMAIN chk.b /\ PkgPath \in DOMAIN chk.a) =>
        ret \in checked([chk EXCEPT !.err = NoErr])

====
